---- MODULE Spec2Model ----
(***************************************************************************)
(* GEOLib, geolib/models/dstability/serializer.py: the D-Stability         *)
(* serializers.  DStabilityBaseSerializer.serialize() walks the declared   *)
(* fields of a DStabilityStructure and builds a dict of root files and     *)
(* folders; DStabilityInputSerializer.write() puts that dict under a       *)
(* directory, DStabilityInputZipSerializer.write() into a zip archive.     *)
(*                                                                         *)
(* Text is modelled as a sequence of characters (one-character strings,    *)
(* with the extension ".json" kept as one token), so that building a file  *)
(* name, joining a folder and a file name, and splitting a path on "/" are *)
(* computed, not assumed.                                                  *)
(***************************************************************************)
EXTENDS Integers, Sequences, FiniteSets, TLC

(* ------------------------------ bounds -------------------------------- *)

\* longest list a list-typed field holds
MaxElems == 2

\* an I/O fault can hit the opening of archive entry 0..MaxFaultAt
MaxFaultAt == 1

(* ------------------------- the declared types -------------------------- *)

\* The structure classes a field can be declared with.  Their declarations
\* (geolib/models/dstability/internal.py) are not among the source files;
\* each class is what the serializer sees of it: whether it has the class
\* methods structure_name() and structure_group(), and what they return.
Classes == {"SoilCollection", "Waternet", "BishopResult", "GroupOnly", "NameOnly", "Bare"}

HasName(cls) == cls \in {"SoilCollection", "Waternet", "BishopResult", "NameOnly"}

HasGroup(cls) == cls \in {"SoilCollection", "Waternet", "BishopResult", "GroupOnly"}

structure_name(cls) ==
    CASE cls = "SoilCollection" -> <<"s">>
      [] cls = "Waternet" -> <<"w">>
      [] cls = "BishopResult" -> <<"r">>
      [] cls = "NameOnly" -> <<"o">>

\* a folder name may be nested and may end in "/"
structure_group(cls) ==
    CASE cls = "SoilCollection" -> <<"s">>
      [] cls = "Waternet" -> <<"w", "s">>
      [] cls = "BishopResult" -> <<"r", "s", "/", "b", "/">>
      [] cls = "GroupOnly" -> <<"g">>

\* A declared field type: the class itself (origin "none"), list[cls], or a
\* union such as cls | None.
ListOf(cls) == [origin |-> "list", arg |-> cls]

Plain(cls) == [origin |-> "none", arg |-> cls]

UnionOf(cls) == [origin |-> "union", arg |-> cls]

get_origin(fieldtype) == fieldtype.origin

get_args0(fieldtype) == fieldtype.arg

\* a slip in the lookup: a union answered by its member class
TypeHasName_of_member(fieldtype) == HasName(get_args0(fieldtype))

\* what hasattr(fieldtype, "structure_name") is for a declared type: a union
\* object has no such attribute, whatever its members have
TypeHasName(fieldtype) == get_origin(fieldtype) = "none" /\ HasName(get_args0(fieldtype))

Decl(f, t) == [field |-> f, type |-> t]

\* The declarations a document class can have, in declaration order.
Schemas ==
    { <<Decl("waternets", ListOf("Waternet")), Decl("results", ListOf("BishopResult"))>>,
      <<Decl("soils", Plain("SoilCollection")), Decl("waternets", ListOf("Waternet"))>>,
      <<Decl("results", ListOf("BishopResult")), Decl("soils", Plain("SoilCollection"))>>,
      <<Decl("soils", UnionOf("SoilCollection")), Decl("waternets", ListOf("Waternet"))>>,
      <<Decl("extras", ListOf("GroupOnly")), Decl("soils", Plain("SoilCollection"))>>,
      <<Decl("waternets", ListOf("Waternet")), Decl("info", Plain("Bare"))>>,
      <<Decl("soils", Plain("NameOnly")), Decl("others", ListOf("NameOnly"))>> }

(* ------------------------------ values --------------------------------- *)

\* the content of one structure instance
Data == {"x", "y"}

RECURSIVE SeqsUpTo(_, _)
SeqsUpTo(S, n) ==
    IF n = 0 THEN {<<>>}
    ELSE LET shorter == SeqsUpTo(S, n - 1)
         IN  shorter \cup {Append(s, d) : s \in {q \in shorter : Len(q) = n - 1}, d \in S}

ValuesOf(fieldtype) ==
    IF get_origin(fieldtype) = "list" THEN SeqsUpTo(Data, MaxElems) ELSE Data

\* An instance is its attribute dict: (field, value) pairs in the order the
\* fields were populated, which need not be the declaration order.
Reverse(s) == [i \in 1..Len(s) |-> s[Len(s) + 1 - i]]

RECURSIVE AttrsUpTo(_, _)
AttrsUpTo(sch, n) ==
    IF n = 0 THEN {<<>>}
    ELSE {Append(a, [field |-> sch[n].field, value |-> v]) :
              a \in AttrsUpTo(sch, n - 1), v \in ValuesOf(sch[n].type)}

Instances(sch) ==
    AttrsUpTo(sch, Len(sch)) \cup {Reverse(a) : a \in AttrsUpTo(sch, Len(sch))}

getattr(obj, f) == obj[CHOOSE i \in 1..Len(obj) : obj[i].field = f].value

(* ----------------------------- serialize ------------------------------- *)

Digits == <<"0", "1", "2", "3", "4", "5", "6", "7", "8", "9">>

\* str(i) of a non-negative integer, as the f-string formats it
RECURSIVE str(_)
str(i) == IF i < 10 THEN <<Digits[i + 1]>> ELSE str(i \div 10) \o <<Digits[(i % 10) + 1]>>

\* data.model_dump_json(indent=4): the JSON text of one structure
model_dump_json(d) == <<"{", d, "}">>

\* d[k] = v on a dict kept as a sequence of items in insertion order: an
\* existing key keeps its place and takes the new value, a new key goes last
DictSet(d, item) ==
    IF \E i \in 1..Len(d) : d[i].key = item.key
    THEN [i \in 1..Len(d) |-> IF d[i].key = item.key THEN item ELSE d[i]]
    ELSE Append(d, item)

DictHas(d, k) == \E i \in 1..Len(d) : d[i].key = k

DictGet(d, k) == d[CHOOSE i \in 1..Len(d) : d[i].key = k]

Keys(d) == [i \in 1..Len(d) |-> d[i].key]

\* the two kinds of value serialize() stores under a key
FileItem(k, text) == [key |-> k, isdir |-> FALSE, text |-> text, items |-> <<>>]

FolderItem(k, items) == [key |-> k, isdir |-> TRUE, text |-> <<>>, items |-> items]

\* a slip in the suffix: the first element numbered like the others
suffix_also_first(i) == <<"_">> \o str(i)

suffix(i) == IF i > 0 THEN <<"_">> \o str(i) ELSE <<>>

\* a slip in the file name: the suffix left out, every element under one name
ElementFileName_no_suffix(cls, i) == structure_name(cls) \o <<".json">>

\* f"{element_type.structure_name()}{suffix}.json"
ElementFileName(cls, i) == structure_name(cls) \o suffix(i) \o <<".json">>

\* the loop over enumerate(getattr(self.ds, field)): elements 0..n-1 stored
\* in the folder's dict
RECURSIVE FolderOf(_, _, _)
FolderOf(cls, elems, n) ==
    IF n = 0 THEN <<>>
    ELSE DictSet(FolderOf(cls, elems, n - 1),
                 [key |-> ElementFileName(cls, n - 1), text |-> model_dump_json(elems[n])])

Raised(err) == [raised |-> err, value |-> <<>>]

Returned(v) == [raised |-> "none", value |-> v]

\* a slip in the loop body: the folder's dict created with its first element,
\* so that an empty list leaves no key
SerializeField_folder_on_first_element(decl, obj, sofar) ==
    IF get_origin(decl.type) = "list"
    THEN LET element_type == get_args0(decl.type)
             elems == getattr(obj, decl.field)
         IN  IF ~HasGroup(element_type) THEN Raised("AttributeError")
             ELSE IF elems = <<>> THEN Returned(sofar)
             ELSE IF ~HasName(element_type) THEN Raised("AttributeError")
             ELSE Returned(DictSet(sofar,
                      FolderItem(structure_group(element_type),
                                 FolderOf(element_type, elems, Len(elems)))))
    ELSE IF ~TypeHasName(decl.type) THEN Raised("AttributeError")
         ELSE Returned(DictSet(sofar,
                  FileItem(structure_name(get_args0(decl.type)) \o <<".json">>,
                           model_dump_json(getattr(obj, decl.field)))))

\* one pass of the loop body for the declaration decl, on the dict so far
SerializeField(decl, obj, sofar) ==
    IF get_origin(decl.type) = "list"
    THEN LET element_type == get_args0(decl.type)
             elems == getattr(obj, decl.field)
         IN  IF ~HasGroup(element_type) THEN Raised("AttributeError")
             ELSE IF Len(elems) > 0 /\ ~HasName(element_type) THEN Raised("AttributeError")
             ELSE Returned(DictSet(sofar,
                      FolderItem(structure_group(element_type),
                                 FolderOf(element_type, elems, Len(elems)))))
    ELSE IF ~TypeHasName(decl.type) THEN Raised("AttributeError")
         ELSE Returned(DictSet(sofar,
                  FileItem(structure_name(get_args0(decl.type)) \o <<".json">>,
                           model_dump_json(getattr(obj, decl.field)))))

\* get_filtered_type_hints(self.ds): the declared (field, type) pairs in
\* declaration order
get_filtered_type_hints(sch) == sch

RECURSIVE SerializeUpTo(_, _, _)
SerializeUpTo(hints, obj, n) ==
    IF n = 0 THEN Returned(<<>>)
    ELSE LET before == SerializeUpTo(hints, obj, n - 1)
         IN  IF before.raised # "none" THEN before
             ELSE SerializeField(hints[n], obj, before.value)

\* a slip in the walk: the fields taken from the instance's attribute dict,
\* in the order they were populated, instead of from the type hints
serialize_in_population_order(sch, obj) ==
    LET declOf(f) == sch[CHOOSE j \in 1..Len(sch) : sch[j].field = f]
        hints == [i \in 1..Len(obj) |-> declOf(obj[i].field)]
    IN  SerializeUpTo(hints, obj, Len(hints))

serialize(sch, obj) ==
    LET hints == get_filtered_type_hints(sch)
    IN  SerializeUpTo(hints, obj, Len(hints))

(* --------------------------- paths and files --------------------------- *)

\* s.split("/"): the segments between the slashes, empty ones included
RECURSIVE SplitUpTo(_, _)
SplitUpTo(s, n) ==
    IF n = 0 THEN << <<>> >>
    ELSE LET prev == SplitUpTo(s, n - 1)
         IN  IF s[n] = "/" THEN Append(prev, <<>>)
             ELSE [prev EXCEPT ![Len(prev)] = Append(@, s[n])]

Split(s) == SplitUpTo(s, Len(s))

NonEmpty(seg) == seg # <<>>

\* pathlib: filepath / name, relative to filepath; empty segments (a doubled
\* or trailing "/") are dropped
Parts(name) == SelectSeq(Split(name), NonEmpty)

Prefixes(path) == {SubSeq(path, 1, k) : k \in 1..Len(path)}

\* fdata.encode("utf-8")
encode(text) == [utf8 |-> text]

OldBytes == encode(<<"o", "l", "d">>)

\* A directory tree under the target directory: the folders, and the files
\* with their bytes.
EmptyTree == [dirs |-> {}, files |-> <<>>]

\* a target directory that was used before: an unrelated file, a folder with
\* files of an earlier, longer document, and a file where a folder would go
BusyTree ==
    [dirs |-> {<< <<"w", "s">> >>},
     files |-> (<< <<"o", "l", "d", ".json">> >> :> OldBytes)
            @@ (<< <<"w", "s">>, <<"w", ".json">> >> :> OldBytes)
            @@ (<< <<"w", "s">>, <<"w", "_", "1", ".json">> >> :> OldBytes)
            @@ (<< <<"r", "s">> >> :> OldBytes)]

\* a target directory with a folder where a root file would go and a file
\* where a folder would go
ClashTree ==
    [dirs |-> {<< <<"s", ".json">> >>},
     files |-> (<< <<"g">> >> :> OldBytes)]

InitialTrees == {EmptyTree, BusyTree, ClashTree}

IsFile(tree, path) == path \in DOMAIN tree.files

\* a slip in mkdir: the folder emptied when it is there already
mkdir_emptied(tree, path) ==
    IF IsFile(tree, path) THEN [tree |-> tree, raised |-> "FileExistsError"]
    ELSE IF \E p \in Prefixes(path) : IsFile(tree, p)
    THEN [tree |-> tree, raised |-> "NotADirectoryError"]
    ELSE LET kept == {f \in DOMAIN tree.files :
                         ~(Len(f) > Len(path) /\ SubSeq(f, 1, Len(path)) = path)}
         IN  [tree |-> [dirs |-> tree.dirs \cup Prefixes(path),
                        files |-> [f \in kept |-> tree.files[f]]],
              raised |-> "none"]

\* folder.mkdir(parents=True, exist_ok=True)
mkdir(tree, path) ==
    IF IsFile(tree, path) THEN [tree |-> tree, raised |-> "FileExistsError"]
    ELSE IF \E p \in Prefixes(path) : IsFile(tree, p)
    THEN [tree |-> tree, raised |-> "NotADirectoryError"]
    ELSE [tree |-> [tree EXCEPT !.dirs = @ \cup Prefixes(path)], raised |-> "none"]

\* with fn.open("wb") as io: io.write(data)
open_wb_write(tree, path, bytes) ==
    IF path \in tree.dirs THEN [tree |-> tree, raised |-> "IsADirectoryError"]
    ELSE IF \E p \in Prefixes(path) \ {path} : IsFile(tree, p)
    THEN [tree |-> tree, raised |-> "NotADirectoryError"]
    ELSE IF \E p \in Prefixes(path) \ {path} : p \notin tree.dirs
    THEN [tree |-> tree, raised |-> "FileNotFoundError"]
    ELSE [tree |-> [tree EXCEPT !.files = (path :> bytes) @@ @], raised |-> "none"]

(* ------------------- DStabilityInputSerializer.write ------------------- *)

\* the file-system calls write() makes for one item of the serialized dict,
\* in order
DirCallsOfItem(item) ==
    IF item.isdir
    THEN LET folder == Parts(item.key)
         IN  <<[call |-> "mkdir", path |-> folder, bytes |-> encode(<<>>)]>>
             \o [i \in 1..Len(item.items) |->
                    [call |-> "open", path |-> folder \o Parts(item.items[i].key),
                     bytes |-> encode(item.items[i].text)]]
    ELSE <<[call |-> "open", path |-> Parts(item.key), bytes |-> encode(item.text)]>>

RECURSIVE DirCalls(_, _)
DirCalls(serialized, n) ==
    IF n = 0 THEN <<>>
    ELSE DirCalls(serialized, n - 1) \o DirCallsOfItem(serialized[n])

\* the calls run one after the other; the first that raises ends the write
RECURSIVE RunDirCalls(_, _, _)
RunDirCalls(tree, calls, n) ==
    IF n = 0 THEN [tree |-> tree, raised |-> "none", dirs |-> {}, files |-> {}]
    ELSE LET before == RunDirCalls(tree, calls, n - 1)
             c == calls[n]
         IN  IF before.raised # "none" THEN before
             ELSE IF c.call = "mkdir"
             THEN LET r == mkdir(before.tree, c.path)
                  IN  [tree |-> r.tree, raised |-> r.raised,
                       dirs |-> IF r.raised = "none" THEN before.dirs \cup Prefixes(c.path)
                                ELSE before.dirs,
                       files |-> before.files]
             ELSE LET r == open_wb_write(before.tree, c.path, c.bytes)
                  IN  [tree |-> r.tree, raised |-> r.raised, dirs |-> before.dirs,
                       files |-> IF r.raised = "none" THEN before.files \cup {c.path}
                                 ELSE before.files]

\* the whole of write(filepath): the tree it leaves, what it raised, and the
\* folders and files this call made
DirWrite(sch, obj, tree) ==
    LET ser == serialize(sch, obj)
    IN  IF ser.raised # "none"
        THEN [tree |-> tree, raised |-> ser.raised, dirs |-> {}, files |-> {}]
        ELSE LET calls == DirCalls(ser.value, Len(ser.value))
             IN  RunDirCalls(tree, calls, Len(calls))

(* ------------------ DStabilityInputZipSerializer.write ----------------- *)

\* The environments an archive is produced in: the platform the interpreter
\* runs on and the wall-clock time of the run.
Envs == {[platform |-> "win32", now |-> <<2024, 5, 1, 9, 0, 0>>],
         [platform |-> "linux", now |-> <<2025, 7, 2, 18, 30, 0>>]}

\* how ZipFile.writestr() makes the metadata: date_time taken from the clock
ZipInfo_clock(filename, env) ==
    [filename |-> filename,
     create_system |-> IF env.platform = "win32" THEN 0 ELSE 3,
     date_time |-> env.now,
     data |-> encode(<<>>)]

\* zipfile.ZipInfo(filename): the entry's metadata as ZipFile.open(name, "w")
\* creates it.  create_system is 0 on Windows and 3 elsewhere; date_time is
\* ZipInfo's default, not the clock.
ZipInfo(filename, env) ==
    [filename |-> filename,
     create_system |-> IF env.platform = "win32" THEN 0 ELSE 3,
     date_time |-> <<1980, 1, 1, 0, 0, 0>>,
     data |-> encode(<<>>)]

\* a slip in the entry name: the "/" added whatever the folder name ends in
ZipCallsOfItem_always_slash(item) ==
    IF item.isdir
    THEN [i \in 1..Len(item.items) |->
             [fn |-> item.key \o <<"/">> \o item.items[i].key,
              text |-> item.items[i].text]]
    ELSE <<[fn |-> item.key, text |-> item.text]>>

\* the entry names and texts write() opens for one item of the serialized
\* dict, in order
ZipCallsOfItem(item) ==
    IF item.isdir
    THEN LET folder == item.key
         IN  [i \in 1..Len(item.items) |->
                 [fn |-> IF folder[Len(folder)] = "/"
                         THEN folder \o item.items[i].key
                         ELSE folder \o <<"/">> \o item.items[i].key,
                  text |-> item.items[i].text]]
    ELSE <<[fn |-> item.key, text |-> item.text]>>

RECURSIVE ZipCalls(_, _)
ZipCalls(serialized, n) ==
    IF n = 0 THEN <<>>
    ELSE ZipCalls(serialized, n - 1) \o ZipCallsOfItem(serialized[n])

\* with zip.open(fn, "w") as io: io.write(text.encode("utf-8"))
ZipEntry(c, env) == [ZipInfo(c.fn, env) EXCEPT !.data = encode(c.text)]

\* a slip in the loop over zip.filelist: the entry written last left as it is
Normalized_but_last(entries) ==
    [i \in 1..Len(entries) |->
        IF i < Len(entries) THEN [entries[i] EXCEPT !.create_system = 0] ELSE entries[i]]

\* for zfile in zip.filelist: zfile.create_system = 0
Normalized(entries) == [i \in 1..Len(entries) |-> [entries[i] EXCEPT !.create_system = 0]]

NoFault == -1

Faults == {NoFault} \cup 0..MaxFaultAt

\* An archive file: whether the path holds one, and the entries of its
\* central directory as ZipFile.close() writes them.
NoArchive == [exists |-> FALSE, entries |-> <<>>]

Archive(entries) == [exists |-> TRUE, entries |-> entries]

\* The whole of write(filepath).  ZipFile(filepath, mode="w") truncates the
\* target before serialize() runs; leaving the with block, by return or by
\* an exception, closes the archive with the entries written so far.  fault
\* is the entry whose opening fails with an OSError, if that entry is reached.
ZipWrite(sch, obj, env, fault) ==
    LET ser == serialize(sch, obj)
    IN  IF ser.raised # "none"
        THEN [archive |-> Archive(<<>>), raised |-> ser.raised]
        ELSE LET calls == ZipCalls(ser.value, Len(ser.value))
                 written(n) == [i \in 1..n |-> ZipEntry(calls[i], env)]
             IN  IF fault # NoFault /\ fault < Len(calls)
                 THEN [archive |-> Archive(written(fault)), raised |-> "OSError"]
                 ELSE [archive |-> Archive(Normalized(written(Len(calls)))),
                       raised |-> "none"]

(* ------- geolib/models/dfoundations/internal.py: the collections ------- *)

\* objects (soils, profiles, CPTs) the caller makes and passes in one behaviour
MaxCalls == 3

\* A list object lives in a cell of the heap, a sequence of lists; a
\* reference to a list is the index of its cell.  Two fields that hold the
\* same reference hold the same list: an append through one shows in the other.

\* Soil.default_soils(): the value the class body of SoilCollection evaluates
\* once (geolib/models/dfoundations/internal_soil.py is not among the source
\* files; the default list is one soil here).  oid tells objects apart.
default_soils == <<[oid |-> 0, name |-> "s0"]>>

\* the cells of the lists made when the class bodies run
SoilCollection_soil == 1
Profiles_profiles == 2
CPTList_cpt_collection == 3

ClassLists == <<default_soils, <<>>, <<>>>>

\* a field that takes its default in a new instance holds the class's own
\* default object
new_default_shared(h, c) == [heap |-> h, ref |-> c]

\* a field that takes its default in a new instance holds a fresh deep copy
\* of the default (the base model copies an unhashable default per instance)
new_default(h, c) == [heap |-> Append(h, h[c]), ref |-> Len(h) + 1]

\* SoilCollection(), CPTList(), Profiles(): an instance is its one list field
NewCollections(h, soil, cpt, prof) ==
    LET a == new_default(h, soil)
        b == new_default(a.heap, cpt)
        c == new_default(b.heap, prof)
    IN  [heap |-> c.heap,
         obj  |-> [soil_collection |-> a.ref, cpt_list |-> b.ref, profiles |-> c.ref]]

\* the class body of DFoundationsInputStructure: its defaults are instances
\* SoilCollection(), CPTList(), Profiles() made once
StructureDefaults ==
    NewCollections(ClassLists, SoilCollection_soil, CPTList_cpt_collection,
                   Profiles_profiles)

\* DFoundationsInputStructure(): every default instance is copied, its list
\* with it
DFoundationsInputStructure(h) ==
    LET d == StructureDefaults.obj
    IN  NewCollections(h, d.soil_collection, d.cpt_list, d.profiles)

\* collections made on their own: SoilCollection(), CPTList(), Profiles()
Standalone(h) ==
    NewCollections(h, SoilCollection_soil, CPTList_cpt_collection, Profiles_profiles)

Kinds == {"DFoundationsInputStructure", "collections"}

Construct(h, kind) ==
    IF kind = "DFoundationsInputStructure" THEN DFoundationsInputStructure(h)
    ELSE Standalone(h)

\* two separately constructed instances, one after the other
TwoInstances(k1, k2) ==
    LET d1 == Construct(StructureDefaults.heap, k1)
        d2 == Construct(d1.heap, k2)
    IN  [heap |-> d2.heap, docs |-> <<d1.obj, d2.obj>>]

\* the cells no instance owns: the class-level defaults
ClassCells == 1..Len(StructureDefaults.heap)

\* what the caller passes
SoilNames == {"s0", "s1"}
ProfileNames == {"p", "q"}
Levels == {0, 1}
TimeOrderType == {1, 2, 3}

\* Python's None
None == [t |-> "None", n |-> 0]

\* SoilCollection.add_soil_if_unique without the check of the name
add_soil_always(soil_list, soil) ==
    [list |-> Append(soil_list, soil), raised |-> "none", value |-> soil]

\* SoilCollection.add_soil_if_unique(soil) on the list self.soil
add_soil_if_unique(soil_list, soil) ==
    IF \E i \in 1..Len(soil_list) : soil.name = soil_list[i].name
    THEN [list |-> soil_list, raised |-> "NameError", value |-> None]
    ELSE [list |-> Append(soil_list, soil), raised |-> "none", value |-> soil]

\* SoilCollection.find_soil_id(key): the index, from 0, of the first soil
\* named key; KeyError if there is none
find_soil_id(soil_list, key) ==
    LET hits == {i \in 1..Len(soil_list) : soil_list[i].name = key}
    IN  IF hits = {} THEN [raised |-> "KeyError", value |-> None]
        ELSE [raised |-> "none",
              value |-> (CHOOSE i \in hits : \A j \in hits : i <= j) - 1]

\* the loop of Profiles.add_profile_if_unique from position i on: each
\* profile met takes the new excavation level, then its name is compared
RECURSIVE profile_loop(_, _, _)
profile_loop(profiles, profile, i) ==
    IF i > Len(profiles)
    THEN [list |-> Append(profiles, profile), raised |-> "none", value |-> profile]
    ELSE LET levelled == [profiles EXCEPT
                             ![i].excavation_level = profile.excavation_level]
         IN  IF profile.name = levelled[i].name
             THEN [list |-> levelled, raised |-> "NameError", value |-> None]
             ELSE profile_loop(levelled, profile, i + 1)

\* Profiles.add_profile_if_unique(profile) on the list self.profiles
add_profile_if_unique(profiles, profile) == profile_loop(profiles, profile, 1)

\* CPTList.add_cpt that leaves the CPTs already held as they are
add_cpt_appends_only(cpt_collection, cpt) ==
    [list |-> Append(cpt_collection, cpt), raised |-> "none",
     value |-> Len(cpt_collection)]

\* CPTList.add_cpt(cpt) on the list self.cpt_collection
add_cpt(cpt_collection, cpt) ==
    LET retimed == [i \in 1..Len(cpt_collection) |->
                       [cpt_collection[i] EXCEPT !.timeorder_type = cpt.timeorder_type]]
        appended == Append(retimed, cpt)
    IN  [list |-> appended, raised |-> "none", value |-> Len(appended) - 1]

(* ---- dfoundations/internal.py: CalculationOptions, CalculationType ---- *)

\* A field name is the sequence of its words and underscores.  A value is
\* tagged with its type; a float is counted in thousandths.
Bool_FALSE == [t |-> "Bool", n |-> 0]
Bool_TRUE == [t |-> "Bool", n |-> 1]
Float(thousandths) == [t |-> "float", n |-> thousandths]

is_rigid == <<"is", "_", "rigid">>
is_xi3_overruled == <<"is", "_", "xi3", "_", "overruled">>
factor_xi3 == <<"factor", "_", "xi3">>
is_area_overruled == <<"is", "_", "area", "_", "overruled">>
area == <<"area">>
load_factor_between_limit_1_and_2 ==
    <<"load", "_", "factor", "_", "between", "_", "limit", "_", "1", "_", "and", "_", "2">>

\* declarations of CalculationOptions, in the order of the class body: the
\* first toggle with a "factor_" value field, the first toggle whose value
\* field has no prefix, and two fields without a toggle
CalculationOptionsFields ==
    << [name |-> is_rigid, type |-> "Bool", optional |-> FALSE,
        ge |-> 0, le |-> 1, default |-> Bool_TRUE],
       [name |-> is_xi3_overruled, type |-> "Bool", optional |-> FALSE,
        ge |-> 0, le |-> 1, default |-> Bool_FALSE],
       [name |-> factor_xi3, type |-> "float", optional |-> TRUE,
        ge |-> 10, le |-> 10000, default |-> Float(2000)],
       [name |-> is_area_overruled, type |-> "Bool", optional |-> FALSE,
        ge |-> 0, le |-> 1, default |-> Bool_FALSE],
       [name |-> area, type |-> "float", optional |-> TRUE,
        ge |-> 0, le |-> 100000000, default |-> Float(1000000)],
       [name |-> load_factor_between_limit_1_and_2, type |-> "float", optional |-> FALSE,
        ge |-> 500, le |-> 1000, default |-> Float(833)] >>

\* cls.model_fields: the declared names
model_fields(fields) == {fields[i].name : i \in 1..Len(fields)}

\* str.replace(old, ""): every occurrence of old, left to right, is removed
RECURSIVE replace(_, _)
replace(s, old) ==
    IF Len(s) < Len(old) THEN s
    ELSE IF SubSeq(s, 1, Len(old)) = old
         THEN replace(SubSeq(s, Len(old) + 1, Len(s)), old)
         ELSE <<Head(s)>> \o replace(Tail(s), old)

\* find_toggle that keeps the field name whole
find_toggle_whole_name(field) == <<"is", "_">> \o field \o <<"_", "overruled">>

\* CalculationOptions.find_toggle(field)
find_toggle(field) ==
    <<"is", "_">> \o replace(field, <<"factor", "_">>) \o <<"_", "overruled">>

\* dict.update(other): the keys of other are set, the rest is kept
update(d, other) ==
    [k \in DOMAIN d \cup DOMAIN other |-> IF k \in DOMAIN other THEN other[k] ELSE d[k]]

\* what the base model accepts for a field
Valid(decl, v) ==
    IF v = None THEN decl.optional
    ELSE v.t = decl.type /\ decl.ge <= v.n /\ v.n <= decl.le

\* the base model's __init__(**kwargs): a field takes the value passed for
\* it, validated, or its default; ValidationError if a value is not valid
BaseModel_init(fields, kwargs) ==
    LET names == model_fields(fields)
        decl(f) == fields[CHOOSE i \in 1..Len(fields) : fields[i].name = f]
    IN  IF \E f \in DOMAIN kwargs : ~Valid(decl(f), kwargs[f])
        THEN [raised |-> "ValidationError", obj |-> None]
        ELSE [raised |-> "none",
              obj |-> [f \in names |-> IF f \in DOMAIN kwargs THEN kwargs[f]
                                       ELSE decl(f).default]]

\* CalculationOptions.__init__(**kwargs)
CalculationOptions(kwargs) ==
    LET fields == model_fields(CalculationOptionsFields)
        given == {f \in DOMAIN kwargs : kwargs[f] # None}
        found == {find_toggle(f) : f \in given} \cap fields
        toggles == [t \in found |-> Bool_TRUE]
    IN  BaseModel_init(CalculationOptionsFields, update(kwargs, toggles))

\* what a caller passes for a field
Passable(decl) ==
    IF decl.type = "Bool" THEN {Bool_FALSE, Bool_TRUE}
    ELSE {None, Float(1000), Float(200000)}

\* the keyword arguments of a call: some declared fields, each with a value
KwargsOver(fields, S) ==
    {kw \in [S -> {None, Bool_FALSE, Bool_TRUE, Float(1000), Float(200000)}] :
        \A f \in S : \E i \in 1..Len(fields) :
            fields[i].name = f /\ kw[f] \in Passable(fields[i])}

OptionsKwargs ==
    UNION {KwargsOver(CalculationOptionsFields, S) :
              S \in SUBSET model_fields(CalculationOptionsFields)}

\* MainCalculationType, SubCalculationType: the values of the members
PRELIMINARY_DESIGN == 0
VERIFICATION_DESIGN == 1
MainCalculationType == {PRELIMINARY_DESIGN, VERIFICATION_DESIGN}
SubCalculationType == {0, 1, 2, 3, 4, 7}

\* declared defaults of CalculationType
CalculationTypeDefaults ==
    [main_calculationtype |-> PRELIMINARY_DESIGN, sub_calculationtype |-> 2]

\* CalculationType.__init__ that leaves main_calculationtype as passed
CalculationType_as_passed(kwargs) ==
    [raised |-> "none",
     obj |-> [f \in DOMAIN CalculationTypeDefaults |->
                 IF f \in DOMAIN kwargs THEN kwargs[f] ELSE CalculationTypeDefaults[f]]]

\* CalculationType.__init__(**kwargs)
CalculationType(kwargs) ==
    LET self == [f \in DOMAIN CalculationTypeDefaults |->
                    IF f \in DOMAIN kwargs THEN kwargs[f] ELSE CalculationTypeDefaults[f]]
    IN  [raised |-> "none",
         obj |-> IF self.sub_calculationtype >= 2
                 THEN [self EXCEPT !.main_calculationtype = PRELIMINARY_DESIGN]
                 ELSE [self EXCEPT !.main_calculationtype = VERIFICATION_DESIGN]]

TypeKwargs ==
    UNION {{kw \in [S -> MainCalculationType \cup SubCalculationType] :
               /\ "main_calculationtype" \in S => kw["main_calculationtype"] \in MainCalculationType
               /\ "sub_calculationtype" \in S => kw["sub_calculationtype"] \in SubCalculationType} :
           S \in SUBSET {"main_calculationtype", "sub_calculationtype"}}

(* --------------------------- the state machine ------------------------- *)

\* an archive left at a target by an earlier run, on Linux, of another program
OldArchive ==
    Archive(<<[ZipInfo(<<"o", "l", "d", ".json">>, [platform |-> "linux", now |-> <<>>])
                 EXCEPT !.data = OldBytes]>>)

VARIABLES
    schema,   \* the declarations of the document's class
    ds,       \* the document: the serializer's self.ds
    ret,      \* what the last call of serialize() returned or raised
    fs,       \* the tree under the target directory of the foldered writer
    dlog,     \* the last foldered write: how it ended, what it made
    zip,      \* the archive at the target path of the zip writer
    zlog,     \* the last zip write: how it ended; the environments of the
              \* completed runs, one after the other, that left this archive
    heap,     \* dfoundations: the list objects, by cell
    docs,     \* dfoundations: two instances; each list field holds a cell
    made,     \* dfoundations: objects the caller has made and passed so far
    last,     \* dfoundations: the last call on a collection and how it ended
    built     \* dfoundations: the calculation settings object last constructed

vars == <<schema, ds, ret, fs, dlog, zip, zlog, heap, docs, made, last, built>>

NotCalled == [called |-> FALSE, raised |-> "none", value |-> <<>>]

NoCall == [op |-> "none", on |-> 0, arg |-> None, raised |-> "none", value |-> None]

NotBuilt == [cls |-> "none", kwargs |-> <<>>, raised |-> "none", obj |-> None]

\* two instances of kinds k1 and k2 have been constructed, nothing called yet
FoundationsInit(k1, k2) ==
    /\ heap = TwoInstances(k1, k2).heap
    /\ docs = TwoInstances(k1, k2).docs
    /\ made = 0
    /\ last = NoCall
    /\ built = NotBuilt

Init ==
    /\ FoundationsInit("DFoundationsInputStructure", "DFoundationsInputStructure")
    /\ schema \in Schemas
    /\ ds \in Instances(schema)
    /\ ret = NotCalled
    /\ fs \in InitialTrees
    /\ dlog = [status |-> "pre", raised |-> "none", dirs |-> {}, files |-> {}]
    /\ zip \in {NoArchive, OldArchive}
    /\ zlog = [closed_by |-> "pre", envs |-> {}]

\* DStabilityBaseSerializer.serialize()
Serialize ==
    /\ LET r == serialize(schema, ds)
       IN  ret' = [called |-> TRUE, raised |-> r.raised, value |-> r.value]
    /\ UNCHANGED <<schema, ds, fs, dlog, zip, zlog, heap, docs, made, last, built>>

\* DStabilityInputSerializer.write(filepath)
WriteDir ==
    /\ LET r == DirWrite(schema, ds, fs)
       IN  /\ fs' = r.tree
           /\ dlog' = [status |-> IF r.raised = "none" THEN "return" ELSE "raise",
                       raised |-> r.raised, dirs |-> r.dirs, files |-> r.files]
    /\ UNCHANGED <<schema, ds, ret, zip, zlog, heap, docs, made, last, built>>

\* DStabilityInputZipSerializer.write(filepath), run in environment env
WriteZip(env, fault) ==
    /\ LET r == ZipWrite(schema, ds, env, fault)
       IN  /\ zip' = r.archive
           /\ zlog' = IF r.raised # "none" THEN [closed_by |-> "raise", envs |-> {}]
                      ELSE [closed_by |-> "return",
                            envs |-> IF zlog.closed_by = "return" THEN zlog.envs \cup {env}
                                     ELSE {env}]
    /\ UNCHANGED <<schema, ds, ret, fs, dlog, heap, docs, made, last, built>>

Next ==
    \/ Serialize
    \/ WriteDir
    \/ \E env \in Envs, fault \in Faults : WriteZip(env, fault)

Spec == Init /\ [][Next]_vars

(* ------------------- what the claims speak about ----------------------- *)

SerializeReturned == ret.called /\ ret.raised = "none"

IsListField(j) == schema[j].type.origin = "list"

ClassOf(j) == schema[j].type.arg

ValueOf(j) == getattr(ds, schema[j].field)

ListFields == {j \in 1..Len(schema) : IsListField(j)}

OtherFields == {j \in 1..Len(schema) : ~IsListField(j)}

\* the file name the specification gives element i (0-indexed) of a list
NameOfElement(cls, i) ==
    IF i = 0 THEN structure_name(cls) \o <<".json">>
    ELSE structure_name(cls) \o <<"_">> \o str(i) \o <<".json">>

NameOfRootFile(cls) == structure_name(cls) \o <<".json">>

\* C1: after serialize(), element 0 of a list field is stored under
\* '<structure_name>.json' and element i >= 1 under '<structure_name>_<i>.json',
\* inside the folder named by the element type's structure_group(); every
\* other field is stored under '<structure_name>.json' at the root.
C1_FileNaming ==
    SerializeReturned =>
        /\ \A j \in ListFields :
              /\ DictHas(ret.value, structure_group(ClassOf(j)))
              /\ LET folder == DictGet(ret.value, structure_group(ClassOf(j)))
                 IN  /\ folder.isdir
                     /\ \A i \in 1..Len(ValueOf(j)) :
                           /\ DictHas(folder.items, NameOfElement(ClassOf(j), i - 1))
                           /\ DictGet(folder.items, NameOfElement(ClassOf(j), i - 1)).text
                                 = model_dump_json(ValueOf(j)[i])
        /\ \A j \in OtherFields :
              /\ DictHas(ret.value, NameOfRootFile(ClassOf(j)))
              /\ ~DictGet(ret.value, NameOfRootFile(ClassOf(j))).isdir
              /\ DictGet(ret.value, NameOfRootFile(ClassOf(j))).text
                    = model_dump_json(ValueOf(j))

\* serialize() returned for a document with a list of two or more elements
\* and a root field
C1_Witness ==
    /\ SerializeReturned
    /\ \E j \in ListFields : Len(ValueOf(j)) >= 2
    /\ OtherFields # {}

\* C2: after serialize(), the folder of every list field holding n elements
\* has exactly n entries, and entry i holds the JSON dump of element i: no
\* element is lost or overwritten.
C2_NoElementLost ==
    SerializeReturned =>
        \A j \in ListFields :
            /\ DictHas(ret.value, structure_group(ClassOf(j)))
            /\ LET items == DictGet(ret.value, structure_group(ClassOf(j))).items
               IN  /\ Len(items) = Len(ValueOf(j))
                   /\ \A i \in 1..Len(ValueOf(j)) :
                         items[i].text = model_dump_json(ValueOf(j)[i])

\* serialize() returned for a document with two list fields, one holding two
\* different elements, the other not empty
C2_Witness ==
    /\ SerializeReturned
    /\ \E j, k \in ListFields :
          /\ j # k
          /\ Len(ValueOf(j)) = 2
          /\ ValueOf(j)[1] # ValueOf(j)[2]
          /\ Len(ValueOf(k)) >= 1

(* what the two writers put at their targets *)

DirWriteReturned == dlog.status = "return"

ZipWriteReturned == zlog.closed_by = "return"

\* the folders the foldered write made (with their parents) and the files it
\* wrote, with the bytes they hold
DirLayout ==
    [dirs |-> dlog.dirs,
     files |-> {[path |-> f, bytes |-> fs.files[f]] : f \in dlog.files}]

\* an archive has no entries for folders: its folders are the ones its entry
\* names, split on "/", pass through
EntryPath(e) == Split(e.filename)

ZipLayout ==
    [dirs |-> UNION {Prefixes(EntryPath(zip.entries[i])) \ {EntryPath(zip.entries[i])} :
                        i \in 1..Len(zip.entries)},
     files |-> {[path |-> EntryPath(zip.entries[i]), bytes |-> zip.entries[i].data] :
                   i \in 1..Len(zip.entries)}]

IsUnder(f, d) == Len(f) > Len(d) /\ SubSeq(f, 1, Len(d)) = d

\* C3 as claimed: the archive holds the same folders and files, with the
\* same contents, as the foldered write makes, also for empty list fields.
C3_SameLayout ==
    (DirWriteReturned /\ ZipWriteReturned) => ZipLayout = DirLayout

\* C3, amended: the archive holds the same files, with the same contents, as
\* the foldered write makes, whether or not a folder name ends in "/"; of the
\* folders, the archive has those that hold a file, and the foldered target
\* has in addition the folders of the empty list fields.
C3_SameFiles ==
    (DirWriteReturned /\ ZipWriteReturned) =>
        /\ ZipLayout.files = DirLayout.files
        /\ ZipLayout.dirs = {d \in DirLayout.dirs : \E f \in dlog.files : IsUnder(f, d)}
        /\ DirLayout.dirs \ ZipLayout.dirs =
              UNION {Prefixes(Parts(structure_group(ClassOf(j)))) :
                        j \in {k \in ListFields : ValueOf(k) = <<>>}}

\* both writers returned for a document with an empty list field and a filled
\* list field whose folder name is nested and ends in "/"
C3_Witness ==
    /\ DirWriteReturned
    /\ ZipWriteReturned
    /\ \E j, k \in ListFields :
          /\ ValueOf(j) = <<>>
          /\ Len(ValueOf(k)) = 2
          /\ structure_group(ClassOf(k))[Len(structure_group(ClassOf(k)))] = "/"

\* C4: an empty list field is emitted, not omitted: serialize() maps the
\* element type's folder key to an empty dict, and the foldered write makes
\* that folder and puts no file in it.
C4_EmptyListEmitted ==
    \A j \in {k \in ListFields : ValueOf(k) = <<>>} :
        LET group == structure_group(ClassOf(j))
        IN  /\ SerializeReturned =>
                  /\ DictHas(ret.value, group)
                  /\ DictGet(ret.value, group).isdir
                  /\ DictGet(ret.value, group).items = <<>>
            /\ DirWriteReturned =>
                  /\ Parts(group) \in dlog.dirs
                  /\ Parts(group) \in fs.dirs
                  /\ \A f \in dlog.files : ~IsUnder(f, Parts(group))

\* serialize() and the foldered write both returned for a document with an
\* empty list field, in a target directory that did not have the folder
C4_Witness ==
    /\ SerializeReturned
    /\ DirWriteReturned
    /\ \E j \in ListFields :
          /\ ValueOf(j) = <<>>
          /\ \A f \in DOMAIN fs.files : ~IsUnder(f, Parts(structure_group(ClassOf(j))))

\* the key serialize() is to store field j under
KeyOfField(j) ==
    IF IsListField(j) THEN structure_group(ClassOf(j)) ELSE NameOfRootFile(ClassOf(j))

\* the entry names of field j in an archive, in list order
EntryNamesOfField(j) ==
    IF IsListField(j)
    THEN [i \in 1..Len(ValueOf(j)) |->
             Parts(structure_group(ClassOf(j))) \o <<NameOfElement(ClassOf(j), i - 1)>>]
    ELSE << <<NameOfRootFile(ClassOf(j))>> >>

RECURSIVE EntryNamesUpTo(_)
EntryNamesUpTo(n) ==
    IF n = 0 THEN <<>> ELSE EntryNamesUpTo(n - 1) \o EntryNamesOfField(n)

\* C5: the keys of serialize()'s result are in the declaration order of the
\* fields, the entries of each folder in list order, and so are the entries
\* an archive is written with, whatever the order the fields were populated in.
C5_DeclarationOrder ==
    /\ SerializeReturned =>
          /\ Keys(ret.value) = [j \in 1..Len(schema) |-> KeyOfField(j)]
          /\ \A j \in ListFields :
                Keys(DictGet(ret.value, structure_group(ClassOf(j))).items)
                   = [i \in 1..Len(ValueOf(j)) |-> NameOfElement(ClassOf(j), i - 1)]
    /\ ZipWriteReturned =>
          [i \in 1..Len(zip.entries) |-> EntryPath(zip.entries[i])]
             = EntryNamesUpTo(Len(schema))

\* serialize() and the zip write returned for a document whose fields were
\* populated in another order than declared, with a list of two elements
C5_Witness ==
    /\ SerializeReturned
    /\ ZipWriteReturned
    /\ ds[1].field # schema[1].field
    /\ \E j \in ListFields : Len(ValueOf(j)) = 2

\* C6: after the zip write returns, every entry of the archive has
\* create_system 0, however many root files and folder files it holds.
C6_CreateSystemZero ==
    ZipWriteReturned => \A i \in 1..Len(zip.entries) : zip.entries[i].create_system = 0

\* the zip write returned on Linux, where create_system starts as 3, with a
\* root file and two or more folder files written
C6_Witness ==
    /\ ZipWriteReturned
    /\ zlog.envs = {env \in Envs : env.platform = "linux"}
    /\ \E i \in 1..Len(zip.entries) : Len(EntryPath(zip.entries[i])) = 1
    /\ Cardinality({i \in 1..Len(zip.entries) : Len(EntryPath(zip.entries[i])) > 1}) >= 2

\* C7: a completed zip write of the document over a completed zip write of
\* the same document leaves the identical archive, whatever the platforms
\* and the wall-clock times of the two runs.
C7_Reproducible ==
    [][(ZipWriteReturned /\ ZipWriteReturned') => zip' = zip]_vars

\* the archive was written to completion by runs on both platforms, at
\* different times, one after the other
C7_Witness ==
    /\ ZipWriteReturned
    /\ zlog.envs = Envs
    /\ Cardinality({env.platform : env \in Envs}) = 2
    /\ Cardinality({env.now : env \in Envs}) = 2
    /\ Len(zip.entries) >= 2

\* C8 as claimed: a zip write that fails leaves at the target path what the
\* path held before the call.
C8_AllOrNothing ==
    [][(zlog'.closed_by = "raise") => zip' = zip]_vars

\* the paths of the files serialize() produces for the document
ProducedPaths ==
    LET ser == serialize(schema, ds).value
    IN  UNION {IF ser[n].isdir
               THEN {Parts(ser[n].key) \o <<ser[n].items[i].key>> : i \in 1..Len(ser[n].items)}
               ELSE {<<ser[n].key>>} : n \in 1..Len(ser)}

\* the files of the target directory whose path serialize() does not
\* produce stay, with their bytes, and so do the folders
DirFrame ==
    /\ \A f \in DOMAIN fs.files :
          f \notin ProducedPaths => (f \in DOMAIN fs'.files /\ fs'.files[f] = fs.files[f])
    /\ fs.dirs \subseteq fs'.dirs

\* the entries of the archive whose path serialize() does not produce stay
ZipFrame ==
    \A i \in 1..Len(zip.entries) :
        EntryPath(zip.entries[i]) \notin ProducedPaths =>
            \E k \in 1..Len(zip'.entries) : zip'.entries[k] = zip.entries[i]

\* C9 as claimed: no write, foldered or zip, removes or changes an entry of
\* its target whose path is not one serialize() produces for the document.
C9_NoUnrelatedEntryTouched ==
    [][DirFrame /\ ZipFrame]_vars

\* C9, amended: the foldered write removes or changes no file or folder of
\* its target whose path is not one serialize() produces; the zip write
\* replaces the archive: after it, returned or raised, the archive holds only
\* entries whose paths serialize() produces, the earlier entries are gone.
C9_DirFrameZipReplaced ==
    /\ [][DirFrame]_vars
    /\ [](zlog.closed_by # "pre" =>
            /\ zip.exists
            /\ \A i \in 1..Len(zip.entries) : EntryPath(zip.entries[i]) \in ProducedPaths)

\* the foldered write returned in a target directory that keeps its
\* unrelated file and the second file of an earlier, longer list; the zip
\* write returned at a target path that held an archive or none
C9_Witness ==
    /\ DirWriteReturned
    /\ dlog.files # {}
    /\ << <<"o", "l", "d", ".json">> >> \in DOMAIN fs.files
    /\ << <<"w", "s">>, <<"w", "_", "1", ".json">> >> \in DOMAIN fs.files
    /\ fs.files[<< <<"w", "s">>, <<"w", "_", "1", ".json">> >>] = OldBytes
    /\ << <<"w", "s">>, <<"w", ".json">> >> \in dlog.files
    /\ ZipWriteReturned

\* a lookup serialize() makes and the declared type cannot answer
MissingLookup(j) ==
    IF IsListField(j)
    THEN \/ ~HasGroup(ClassOf(j))
         \/ (~HasName(ClassOf(j)) /\ ValueOf(j) # <<>>)
    ELSE \/ schema[j].type.origin = "union"
         \/ ~HasName(ClassOf(j))

\* a field whose type, or element type, lacks structure_name or
\* structure_group, or that is declared as a union
LacksMapping(j) ==
    \/ schema[j].type.origin = "union"
    \/ ~HasName(ClassOf(j))
    \/ (IsListField(j) /\ ~HasGroup(ClassOf(j)))

\* C10 as claimed: serialize() of a document with a field that lacks the
\* name/folder mapping fails with SerializationError and returns nothing.
C10_SerializationError ==
    (ret.called /\ \E j \in 1..Len(schema) : LacksMapping(j)) =>
        (ret.raised = "SerializationError" /\ ret.value = <<>>)

\* C10, amended: serialize() fails with AttributeError and returns nothing
\* exactly when a lookup it makes cannot be answered: structure_name on the
\* declared type of a non-list field (a union never answers it),
\* structure_group on the element type of a list field, structure_name on the
\* element type of a list field that holds an element.  Otherwise it returns:
\* an empty list whose element type lacks only structure_name is serialized.
C10_AttributeError ==
    ret.called =>
        IF \E j \in 1..Len(schema) : MissingLookup(j)
        THEN ret.raised = "AttributeError" /\ ret.value = <<>>
        ELSE ret.raised = "none" /\ Len(ret.value) = Len(schema)

\* serialize() was called on a document with a union-typed field, and raised
C10_Witness ==
    /\ ret.called
    /\ ret.raised # "none"
    /\ \E j \in 1..Len(schema) : schema[j].type.origin = "union"

(* --------- dfoundations: the collections as a state machine ------------ *)

\* no serializer is at work while the collections are used
SerializerIdle ==
    /\ schema = <<>>
    /\ ds = <<>>
    /\ ret = NotCalled
    /\ fs = EmptyTree
    /\ dlog = [status |-> "pre", raised |-> "none", dirs |-> {}, files |-> {}]
    /\ zip = NoArchive
    /\ zlog = [closed_by |-> "pre", envs |-> {}]

InitFoundations ==
    /\ SerializerIdle
    /\ \E k1 \in Kinds, k2 \in Kinds : FoundationsInit(k1, k2)

\* the call just made on instance d, on the list in cell c, with result r
Called(op, d, c, arg, r) ==
    /\ heap' = [heap EXCEPT ![c] = r.list]
    /\ last' = [op |-> op, on |-> d, arg |-> arg, raised |-> r.raised, value |-> r.value]
    /\ made' = made + 1
    /\ UNCHANGED <<docs, built, schema, ds, ret, fs, dlog, zip, zlog>>

\* instance d: soil_collection.add_soil_if_unique(Soil(name=name))
AddSoil(d, name) ==
    /\ made < MaxCalls
    /\ LET soil == [oid |-> made + 1, name |-> name]
           c == docs[d].soil_collection
       IN  Called("add_soil_if_unique", d, c, soil, add_soil_if_unique(heap[c], soil))

\* instance d: profiles.add_profile_if_unique(Profile(name, excavation_level))
AddProfile(d, name, level) ==
    /\ made < MaxCalls
    /\ LET profile == [oid |-> made + 1, name |-> name, excavation_level |-> level]
           c == docs[d].profiles
       IN  Called("add_profile_if_unique", d, c, profile,
                  add_profile_if_unique(heap[c], profile))

\* instance d: cpt_list.add_cpt(CPT(timeorder_type))
AddCpt(d, timeorder) ==
    /\ made < MaxCalls
    /\ LET cpt == [oid |-> made + 1, timeorder_type |-> timeorder]
           c == docs[d].cpt_list
       IN  Called("add_cpt", d, c, cpt, add_cpt(heap[c], cpt))

NextFoundations ==
    \/ \E d \in 1..2, name \in SoilNames : AddSoil(d, name)
    \/ \E d \in 1..2, name \in ProfileNames, level \in Levels : AddProfile(d, name, level)
    \/ \E d \in 1..2, timeorder \in TimeOrderType : AddCpt(d, timeorder)

SpecFoundations == InitFoundations /\ [][NextFoundations]_vars

(* ------- dfoundations: constructing the calculation settings ----------- *)

\* the caller is about to construct an object of class cls from kwargs
Pending(cls, kwargs) ==
    [cls |-> cls, kwargs |-> kwargs, raised |-> "pending", obj |-> None]

InitCalculation ==
    /\ SerializerIdle
    /\ heap = TwoInstances("DFoundationsInputStructure", "DFoundationsInputStructure").heap
    /\ docs = TwoInstances("DFoundationsInputStructure", "DFoundationsInputStructure").docs
    /\ made = 0
    /\ last = NoCall
    /\ \/ \E kwargs \in OptionsKwargs : built = Pending("CalculationOptions", kwargs)
       \/ \E kwargs \in TypeKwargs : built = Pending("CalculationType", kwargs)

\* CalculationOptions(**kwargs)
NewCalculationOptions ==
    /\ built.cls = "CalculationOptions"
    /\ built.raised = "pending"
    /\ LET r == CalculationOptions(built.kwargs)
       IN  built' = [built EXCEPT !.raised = r.raised, !.obj = r.obj]
    /\ UNCHANGED <<heap, docs, made, last, schema, ds, ret, fs, dlog, zip, zlog>>

\* CalculationType(**kwargs)
NewCalculationType ==
    /\ built.cls = "CalculationType"
    /\ built.raised = "pending"
    /\ LET r == CalculationType(built.kwargs)
       IN  built' = [built EXCEPT !.raised = r.raised, !.obj = r.obj]
    /\ UNCHANGED <<heap, docs, made, last, schema, ds, ret, fs, dlog, zip, zlog>>

NextCalculation ==
    \/ NewCalculationOptions
    \/ NewCalculationType

SpecCalculation == InitCalculation /\ [][NextCalculation]_vars

(* ---------------- what the dfoundations claims speak about ------------- *)

\* the list fields of an instance
ListFieldsOf == {"soil_collection", "cpt_list", "profiles"}

\* the step is a call of op: the list it worked on before and after
IsCall(op) == made' = made + 1 /\ last'.op = op
CellOfCall(fld) == docs[last'.on][fld]

\* the names in a list are pairwise distinct
DistinctNames(l) == \A i, j \in 1..Len(l) : l[i].name = l[j].name => i = j

\* C11: defaults are fresh per instance.  A call of add_soil_if_unique,
\* add_profile_if_unique or add_cpt on one of two separately constructed
\* instances leaves every list of the other instance, and every class-level
\* default list, as it was.
C11_FreshDefaults ==
    [][made' = made + 1 =>
          /\ \A c \in ClassCells : heap'[c] = heap[c]
          /\ \A e \in (1..2) \ {last'.on} : \A fld \in ListFieldsOf :
                 heap'[docs[e][fld]] = heap[docs[e][fld]]]_vars

\* calls on both instances, interleaved, have changed lists of both; the
\* soils of the second instance and the class default are still the default
C11_Witness ==
    /\ Len(heap[docs[1].soil_collection]) = 2
    /\ Len(heap[docs[2].profiles]) = 1
    /\ Len(heap[docs[1].cpt_list]) = 1
    /\ last.on = 1
    /\ heap[docs[2].soil_collection] = default_soils
    /\ heap[SoilCollection_soil] = default_soils

\* an object of class cls has been constructed
Constructed(cls) == built.cls = cls /\ built.raised = "none"

\* the value passed for field f, or else the default declared for it
PassedOrDefault(defaults, f) ==
    IF f \in DOMAIN built.kwargs THEN built.kwargs[f] ELSE defaults[f]

OptionsDefaults ==
    [f \in model_fields(CalculationOptionsFields) |->
        CalculationOptionsFields[
            CHOOSE i \in 1..Len(CalculationOptionsFields) :
                CalculationOptionsFields[i].name = f].default]

\* the declared value fields f whose name "is_" + (f without "factor_") +
\* "_overruled" is declared too, each with that toggle
Coupled == {<<factor_xi3, is_xi3_overruled>>, <<area, is_area_overruled>>}

\* C12: construction couples a value field to its toggle.  In a constructed
\* CalculationOptions, the toggle of a value field that was passed with a
\* value other than None is Bool.TRUE, whatever was passed for the toggle; the
\* toggle of a value field that was not passed, or passed as None, has the
\* value passed for the toggle, or else its declared default.
C12_ToggleCoupling ==
    Constructed("CalculationOptions") =>
        \A p \in Coupled :
            IF p[1] \in DOMAIN built.kwargs /\ built.kwargs[p[1]] # None
            THEN built.obj[p[2]] = Bool_TRUE
            ELSE built.obj[p[2]] = PassedOrDefault(OptionsDefaults, p[2])

\* factor_xi3 was passed with a value and its toggle as FALSE: the toggle is
\* TRUE; area was passed as None: its toggle has its default
C12_Witness ==
    /\ Constructed("CalculationOptions")
    /\ {factor_xi3, is_xi3_overruled, area} \subseteq DOMAIN built.kwargs
    /\ built.kwargs[factor_xi3] = Float(1000)
    /\ built.kwargs[is_xi3_overruled] = Bool_FALSE
    /\ built.obj[is_xi3_overruled] = Bool_TRUE
    /\ built.kwargs[area] = None
    /\ is_area_overruled \notin DOMAIN built.kwargs
    /\ built.obj[is_area_overruled] = Bool_FALSE

\* C13: add_cpt adds the CPT, returns its index, and makes timeorder_type
\* the same everywhere.  After a call, the CPT at the returned index is the
\* one just added, every index valid before the call still holds the same
\* CPT, and every CPT of the collection has the timeorder_type of the CPT
\* just added.
C13_AddCpt ==
    [][IsCall("add_cpt") =>
          LET old == heap[CellOfCall("cpt_list")]
              new == heap'[CellOfCall("cpt_list")]
              r == last'.value
          IN  /\ last'.raised = "none"
              /\ r + 1 \in 1..Len(new)
              /\ new[r + 1].oid = last'.arg.oid
              /\ Len(new) = Len(old) + 1
              /\ \A i \in 1..Len(old) : new[i].oid = old[i].oid
              /\ \A i \in 1..Len(new) :
                     new[i].timeorder_type = last'.arg.timeorder_type]_vars

\* the last call was add_cpt with a CPT of order 3, on a collection that
\* held one CPT: index 1 was returned and both CPTs have order 3
C13_Witness ==
    /\ last.op = "add_cpt"
    /\ last.value = 1
    /\ last.arg.timeorder_type = 3
    /\ LET l == heap[docs[last.on].cpt_list]
       IN  /\ Len(l) = 2
           /\ l[1].oid # l[2].oid
           /\ l[1].timeorder_type = 3
           /\ l[2].timeorder_type = 3

\* C14: the main type follows the sub type.  In every constructed
\* CalculationType, whatever was passed for main_calculationtype, it is
\* PRELIMINARY_DESIGN when the value of sub_calculationtype is 2 or more and
\* VERIFICATION_DESIGN otherwise; sub_calculationtype is as passed or default.
C14_MainFromSub ==
    Constructed("CalculationType") =>
        /\ built.obj.sub_calculationtype =
               PassedOrDefault(CalculationTypeDefaults, "sub_calculationtype")
        /\ built.obj.main_calculationtype =
               IF built.obj.sub_calculationtype \in {2, 3, 4, 7}
               THEN PRELIMINARY_DESIGN ELSE VERIFICATION_DESIGN

\* the caller passed PRELIMINARY_DESIGN with sub type 1: the object has
\* VERIFICATION_DESIGN
C14_Witness ==
    /\ Constructed("CalculationType")
    /\ DOMAIN built.kwargs = {"main_calculationtype", "sub_calculationtype"}
    /\ built.kwargs["main_calculationtype"] = PRELIMINARY_DESIGN
    /\ built.kwargs["sub_calculationtype"] = 1
    /\ built.obj.main_calculationtype = VERIFICATION_DESIGN

\* C15: add_soil_if_unique keeps soil names unique.  The names of a
\* collection are pairwise distinct after every call; a call with a name
\* already present raises NameError and leaves the list as it was, so that
\* find_soil_id answers for every name what it answered before; a call with
\* a new name returns and appends the soil at the end.
C15_UniqueSoilNames ==
    [][IsCall("add_soil_if_unique") =>
          LET old == heap[CellOfCall("soil_collection")]
              new == heap'[CellOfCall("soil_collection")]
              soil == last'.arg
          IN  /\ DistinctNames(new)
              /\ IF \E i \in 1..Len(old) : old[i].name = soil.name
                 THEN /\ last'.raised = "NameError"
                      /\ new = old
                      /\ \A key \in SoilNames :
                             find_soil_id(new, key) = find_soil_id(old, key)
                 ELSE /\ last'.raised = "none"
                      /\ new = Append(old, soil)
                      /\ find_soil_id(new, soil.name).value = Len(old)]_vars

\* a soil with a new name was added, and the last call, with a name already
\* present, was rejected: the collection holds the default soil and the new one
C15_Witness ==
    /\ last.op = "add_soil_if_unique"
    /\ last.raised = "NameError"
    /\ LET l == heap[docs[last.on].soil_collection]
       IN  /\ Len(l) = 2
           /\ l[1] = default_soils[1]
           /\ l[2].name = "s1"
           /\ l[2].oid # last.arg.oid
           /\ last.arg.name = "s1"

\* C16: a rejected add_profile_if_unique has no effect.  When the call
\* raises NameError, the collection holds the same profiles in the same
\* order, each with every field, excavation_level too, as before the call.
C16_RejectedNoEffect ==
    [][IsCall("add_profile_if_unique") /\ last'.raised = "NameError" =>
          heap'[CellOfCall("profiles")] = heap[CellOfCall("profiles")]]_vars

\* C17: from an empty collection on, after any calls of
\* add_profile_if_unique, accepted or rejected, the profile names of a
\* collection are pairwise distinct and its profiles all have the same
\* excavation_level.
C17_DistinctSameLevel ==
    \A d \in 1..2 :
        LET l == heap[docs[d].profiles]
        IN  /\ DistinctNames(l)
            /\ \A i, j \in 1..Len(l) : l[i].excavation_level = l[j].excavation_level

====
